---- MODULE Spec2Model ----
(***************************************************************************)
(* django_warrant/backend.py: the Cognito authentication backend.          *)
(*                                                                         *)
(* One call of CognitoBackend.authenticate is followed statement by        *)
(* statement: the remote credential check, the classification of its       *)
(* errors, the provisioner CognitoUser.get_user_obj (attribute partition,  *)
(* integer coercion, update_or_create or get-and-save, group               *)
(* synchronisation, ad hoc extras), the attachment of the tokens and the   *)
(* session writes.  The ORM, the group table, the session store and the    *)
(* settings are state; the remote provider is the nondeterministic         *)
(* environment.  The credential check may raise; the database, the group   *)
(* listing and the session store answer.                                   *)
(***************************************************************************)
EXTENDS Integers, Sequences, FiniteSets, TLC

VARIABLES
    settings,      \* django.conf.settings: the two policy flags
    users,         \* user_class.objects: the set of local user rows
    groups,        \* Group.objects: the names of the local groups
    membership,    \* user.groups: pairs <<user pk, group name>>
    session,       \* request.session: the in-memory key/value mapping
    saved,         \* what request.session.save() last persisted
    pc,            \* the statement the current call is at
    username,      \* argument of authenticate
    cognito_user,  \* the remote client's state after its authenticate
    error,         \* the error caught at line 92, or None
    attribute_list,\* the provider's attributes of the user, as get_user reads them
    remote_groups, \* the provider's group list of the user
    mapped_attrs,  \* get_user_obj: user_attrs as line 28 left it
    user_attrs,    \* get_user_obj: the known attributes (schema writes)
    extra_attrs,   \* get_user_obj: the attributes unknown to the schema
    is_staff,      \* get_user_obj: the flag read at line 41
    user,          \* the local `user` of the running function
    outcome,       \* how the call ended: pending, return or raise
    pre,           \* the stores as they were when the call began
    log            \* the side effects of the call so far, in order

vars == <<settings, users, groups, membership, session, saved, pc, username,
          cognito_user, error, attribute_list, remote_groups, mapped_attrs,
          user_attrs, extra_attrs, is_staff, user,
          outcome, pre, log>>

----------------------------------------------------------------------------
(* Bounds of the model. *)

MaxUsers == 1

\* The usernames that log in, numbered.
Usernames == 1..MaxUsers

----------------------------------------------------------------------------
(* Python values. *)

None == [type |-> "NoneType"]

EmptyDict == [k \in {} |-> None]

Put(d, k, v) == [x \in DOMAIN d \cup {k} |-> IF x = k THEN v ELSE d[x]]

Update(d, e) == [x \in DOMAIN d \cup DOMAIN e |-> IF x \in DOMAIN e THEN e[x] ELSE d[x]]

Without(d, ks) == [x \in DOMAIN d \ ks |-> d[x]]

endswith(k, suffix) ==
    /\ Len(k) >= Len(suffix)
    /\ SubSeq(k, Len(k) - Len(suffix) + 1, Len(k)) = suffix

Digits == {"0", "1", "2", "3", "4", "5", "6", "7", "8", "9"}

DigitValue(c) ==
    CASE c = "0" -> 0 [] c = "1" -> 1 [] c = "2" -> 2 [] c = "3" -> 3
      [] c = "4" -> 4 [] c = "5" -> 5 [] c = "6" -> 6 [] c = "7" -> 7
      [] c = "8" -> 8 [] c = "9" -> 9

\* int(v) of a string of decimal digits is its value; of the other values of
\* the model it raises ValueError.
IsIntLiteral(v) ==
    /\ Len(v) > 0
    /\ \A i \in 1..Len(v) : SubSeq(v, i, i) \in Digits

RECURSIVE IntPrefix(_, _)
IntPrefix(v, n) ==
    IF n = 0 THEN 0
    ELSE 10 * IntPrefix(v, n - 1) + DigitValue(SubSeq(v, n, n))

int(v) == IntPrefix(v, Len(v))

----------------------------------------------------------------------------
(* Configuration and schema. *)

COGNITO_ATTR_MAPPING ==
    [n \in {"email", "given_name", "family_name"} |->
        CASE n = "email" -> "email"
          [] n = "given_name" -> "first_name"
          [] n = "family_name" -> "last_name"]

\* user_class._meta.get_fields() of the configured user model.
UserModelFields ==
    { [name |-> "id", is_relation |-> FALSE],
      [name |-> "username", is_relation |-> FALSE],
      [name |-> "is_staff", is_relation |-> FALSE],
      [name |-> "first_name", is_relation |-> FALSE],
      [name |-> "org", is_relation |-> TRUE],
      [name |-> "groups", is_relation |-> TRUE] }

django_fields ==
    { IF f.is_relation THEN f.name \o "_id" ELSE f.name : f \in UserModelFields }

UNAUTHORIZED_ERROR_CODE == "NotAuthorizedException"

USER_NOT_FOUND_ERROR_CODE == "UserNotFoundException"

----------------------------------------------------------------------------
(* The remote identity provider: what it may answer. *)

\* The opaque strings the provider issues: one bundle of three per check.
Bundles == {"t1", "t2"}

Token(use, n) == [use |-> use, value |-> n]

\* The state of the client after a successful authenticate(password).
Authenticated(n) ==
    [ access_token |-> Token("access", n),
      id_token |-> Token("id", n),
      refresh_token |-> Token("refresh", n) ]

ErrorCodes ==
    {UNAUTHORIZED_ERROR_CODE, USER_NOT_FOUND_ERROR_CODE, "LimitExceededException"}

ClientError(code) ==
    [family |-> "ClientError", response |-> [Error |-> [Code |-> code]]]

\* boto3.exceptions.Boto3Error and its subclasses have no `response`.
Boto3Error == [family |-> "Boto3Error"]

\* botocore's connection errors derive from neither caught family.
BotoCoreError == [family |-> "BotoCoreError"]

RemoteErrors == {ClientError(c) : c \in ErrorCodes} \cup {Boto3Error, BotoCoreError}

AttributeError == [family |-> "AttributeError"]

ValueError == [family |-> "ValueError"]

IntegrityError == [family |-> "IntegrityError"]

\* The attribute lists the provider may hold for a user: each name is absent
\* or carries one of its values.
AttributeValues ==
    [n \in {"given_name", "org_id", "dept_id"} |->
        CASE n = "given_name" -> {"ann"}
          [] n = "org_id" -> {"7", "x"}
          [] n = "dept_id" -> {"42"}]

WellFormed(al) == \A n \in DOMAIN al : al[n] \in AttributeValues[n]

AttributeLists ==
    { al \in UNION { [names -> UNION {AttributeValues[n] : n \in names}] :
                        names \in SUBSET DOMAIN AttributeValues } :
        WellFormed(al) }

\* The group lists the provider may hold for a user: none, or one that
\* names a local group and a group the site does not have.
RemoteGroupLists == {{}, {"admins", "ghost"}}

----------------------------------------------------------------------------
(* Pure helpers of the module. *)

\* .utils.cognito_to_dict: re-key the attribute list through the mapping;
\* names the mapping does not hold pass through unchanged.
Translate(mapping, n) == IF n \in DOMAIN mapping THEN mapping[n] ELSE n

cognito_to_dict(attr_list, mapping) ==
    [k \in {Translate(mapping, n) : n \in DOMAIN attr_list} |->
        attr_list[CHOOSE n \in DOMAIN attr_list : Translate(mapping, n) = k]]

\* A partition that takes every attribute for a schema field.
ExtraAttrs_NothingExtra(attrs) == [k \in {} |-> attrs[k]]

\* Lines 31-34: the attributes whose key is no schema field.
ExtraAttrs(attrs) ==
    [k \in {x \in DOMAIN attrs : x \notin django_fields} |-> attrs[k]]

\* Lines 35-36: what is left once the extras are deleted.
KnownAttrs(attrs) == Without(attrs, DOMAIN ExtraAttrs(attrs))

\* Lines 37-39: int() of every value whose key ends in "_id".
NeedsInt(k) == endswith(k, "_id")

CoercionFails(attrs) ==
    \E k \in DOMAIN attrs : NeedsInt(k) /\ ~IsIntLiteral(attrs[k])

Coerce(attrs) ==
    [k \in DOMAIN attrs |-> IF NeedsInt(k) THEN int(attrs[k]) ELSE attrs[k]]

\* Line 92: the families of the except clause.
Caught(e) == e.family \in {"Boto3Error", "ClientError"}

\* A classification that forgets the user-not-found code.
IsAuthenticationFailure_UnauthorizedOnly(error_code) ==
    error_code = UNAUTHORIZED_ERROR_CODE

\* Lines 104-107.
IsAuthenticationFailure(error_code) ==
    error_code \in {UNAUTHORIZED_ERROR_CODE, USER_NOT_FOUND_ERROR_CODE}

\* Lines 42-45: the rows update_or_create looks up.
Lookup(name, staff) ==
    {r \in users : r.username = name /\ r.is_staff = staff}

\* The unique constraint on the username column.
UsernameTaken(name) == \E r \in users : r.username = name

\* Line 55: objects.get(username=username).
GetByUsername(name) == {r \in users : r.username = name}

UserObject(row) == [type |-> "User", pk |-> row.id, attrs |-> EmptyDict]

Returned(value) == [kind |-> "return", value |-> value]

Raised(e) == [kind |-> "raise", error |-> e]

Pending == [kind |-> "pending"]

Event(op, keys) == [op |-> op, keys |-> keys]

Snapshot ==
    [users |-> users, groups |-> groups, membership |-> membership,
     session |-> session, saved |-> saved]

----------------------------------------------------------------------------
(* The state after construction: the default settings, no local user, the  *)
(* group table as the site's administrator filled it, an empty session.    *)

Init ==
    /\ settings = [COGNITO_CREATE_UNKNOWN_USERS |-> TRUE,
                   COGNITO_ALLOW_BACKEND_ACCESS |-> FALSE]
    /\ users = {}
    /\ groups = {"admins", "editors"}
    /\ membership = {}
    /\ session = EmptyDict
    /\ saved = EmptyDict
    /\ pc = "idle"
    /\ username = None
    /\ cognito_user = None
    /\ error = None
    /\ attribute_list = EmptyDict
    /\ remote_groups = {}
    /\ mapped_attrs = EmptyDict
    /\ user_attrs = EmptyDict
    /\ extra_attrs = EmptyDict
    /\ is_staff = FALSE
    /\ user = None
    /\ outcome = Pending
    /\ pre = [users |-> {}, groups |-> {"admins", "editors"}, membership |-> {},
              session |-> EmptyDict, saved |-> EmptyDict]
    /\ log = <<>>

stores == <<users, groups, membership>>

sessions == <<session, saved>>

provider == <<attribute_list, remote_groups, mapped_attrs>>

locals == <<cognito_user, error, provider, user_attrs, extra_attrs, is_staff, user>>

----------------------------------------------------------------------------
(* The settings module is edited between requests. *)
Configure(create, staff) ==
    /\ pc = "idle"
    /\ settings' = [COGNITO_CREATE_UNKNOWN_USERS |-> create,
                    COGNITO_ALLOW_BACKEND_ACCESS |-> staff]
    /\ settings' # settings
    /\ UNCHANGED <<stores, sessions, pc, username, locals, outcome, pre, log>>

(* CognitoBackend.authenticate(request, username, password) is entered. *)
Request(name) ==
    /\ pc = "idle"
    /\ pc' = "authenticate"
    /\ username' = name
    /\ pre' = Snapshot
    /\ log' = <<>>
    /\ UNCHANGED <<settings, stores, sessions, locals, outcome>>

(* Lines 84-93: the remote credential check and the except clause. *)
CognitoAuthenticate ==
    /\ pc = "authenticate"
    /\ \/ \E n \in Bundles :
            /\ cognito_user' = Authenticated(n)
            /\ pc' = "get_user"
            /\ UNCHANGED <<error, outcome>>
       \/ \E e \in RemoteErrors :
            /\ IF Caught(e)
                 THEN /\ error' = e
                      /\ pc' = "handle_error_response"
                      /\ UNCHANGED outcome
                 ELSE /\ outcome' = Raised(e)
                      /\ pc' = "done"
                      /\ UNCHANGED error
            /\ UNCHANGED cognito_user
    /\ UNCHANGED <<settings, stores, sessions, username, provider, user_attrs,
                   extra_attrs, is_staff, user, pre, log>>

(* An except clause that drops the handler's result and carries on. *)
handle_error_response_FallsThrough ==
    /\ pc = "handle_error_response"
    /\ IF "response" \notin DOMAIN error
         THEN /\ outcome' = Raised(AttributeError)
              /\ pc' = "done"
         ELSE IF IsAuthenticationFailure(error.response.Error.Code)
         THEN /\ pc' = "get_user"
              /\ UNCHANGED outcome
         ELSE /\ outcome' = Raised(error)
              /\ pc' = "done"
    /\ UNCHANGED <<settings, stores, sessions, username, locals, pre, log>>

(* Lines 102-109. *)
handle_error_response ==
    /\ pc = "handle_error_response"
    /\ IF "response" \notin DOMAIN error
         THEN /\ outcome' = Raised(AttributeError)
              /\ pc' = "done"
         ELSE IF IsAuthenticationFailure(error.response.Error.Code)
         THEN /\ pc' = "line_120"
              /\ UNCHANGED outcome
         ELSE /\ outcome' = Raised(error)
              /\ pc' = "done"
    /\ UNCHANGED <<settings, stores, sessions, username, locals, pre, log>>

(* Line 94 and lines 27-39: get_user hands the provider's attribute list   *)
(* to get_user_obj, which maps it, splits it and coerces the relation keys. *)
get_user_obj ==
    /\ pc = "get_user"
    /\ attribute_list' \in AttributeLists
    /\ remote_groups' \in RemoteGroupLists
    /\ mapped_attrs' = cognito_to_dict(attribute_list', COGNITO_ATTR_MAPPING)
    /\ LET known == KnownAttrs(mapped_attrs')
       IN  /\ extra_attrs' = ExtraAttrs(mapped_attrs')
           /\ IF CoercionFails(known)
                THEN /\ outcome' = Raised(ValueError)
                     /\ pc' = "done"
                     /\ user_attrs' = known
                ELSE /\ user_attrs' = Coerce(known)
                     /\ pc' = "line_40"
                     /\ UNCHANGED outcome
    /\ UNCHANGED <<settings, stores, sessions, username, cognito_user, error,
                   is_staff, user, pre, log>>

\* An INSERT that leaves the staff flag at the column's default.
NewRow_DefaultStaff(name, staff, defaults) ==
    [id |-> Cardinality(users) + 1, username |-> name, is_staff |-> FALSE,
     fields |-> defaults]

\* The row an INSERT of update_or_create writes.
NewRow(name, staff, defaults) ==
    [id |-> Cardinality(users) + 1, username |-> name, is_staff |-> staff,
     fields |-> defaults]

\* The row an UPDATE writes: the given fields overwritten, the rest kept.
Assigned(row, attrs) == [row EXCEPT !.fields = Update(@, attrs)]

(* Lines 40-45: the create-unknown-users policy. *)
update_or_create ==
    /\ pc = "line_40"
    /\ settings.COGNITO_CREATE_UNKNOWN_USERS
    /\ is_staff' = settings.COGNITO_ALLOW_BACKEND_ACCESS
    /\ LET found == Lookup(username, is_staff')
       IN  IF found # {}
             THEN LET row == CHOOSE r \in found : TRUE
                  IN  /\ users' = (users \ {row}) \cup {Assigned(row, user_attrs)}
                      /\ user' = UserObject(row)
                      /\ log' = Append(log, Event("UPDATE", DOMAIN user_attrs))
                      /\ pc' = "line_46"
                      /\ UNCHANGED outcome
             ELSE IF UsernameTaken(username)
             THEN /\ log' = Append(log, Event("INSERT",
                                   DOMAIN user_attrs \cup {"username", "is_staff"}))
                  /\ outcome' = Raised(IntegrityError)
                  /\ pc' = "done"
                  /\ UNCHANGED <<users, user>>
             ELSE LET row == NewRow(username, is_staff', user_attrs)
                  IN  /\ users' = users \cup {row}
                      /\ user' = UserObject(row)
                      /\ log' = Append(log, Event("INSERT",
                                   DOMAIN user_attrs \cup {"username", "is_staff"}))
                      /\ pc' = "line_46"
                      /\ UNCHANGED outcome
    /\ UNCHANGED <<settings, groups, membership, sessions, username,
                   cognito_user, error, provider, user_attrs, extra_attrs, pre>>

(* Lines 46-52: the remote group list, and the local groups it names. *)
sync_groups ==
    /\ pc = "line_46"
    /\ LET aws_groups_list == remote_groups
           matching == {g \in groups : g \in aws_groups_list}
       IN  /\ membership' = membership \cup {<<user.pk, g>> : g \in matching}
           /\ log' = log \o <<Event("admin_list_groups_for_user", aws_groups_list),
                              Event("groups.add", matching)>>
    /\ pc' = "line_61"
    /\ UNCHANGED <<settings, users, groups, sessions, username, locals,
                   outcome, pre>>

(* An updates-only branch that creates the row it does not find. *)
get_and_save_Creating ==
    /\ pc = "line_40"
    /\ ~settings.COGNITO_CREATE_UNKNOWN_USERS
    /\ LET found == GetByUsername(username)
           row == IF found # {} THEN CHOOSE r \in found : TRUE
                  ELSE [id |-> Cardinality(users) + 1, username |-> username,
                        is_staff |-> FALSE, fields |-> EmptyDict]
       IN  /\ users' = (users \ {row}) \cup {Assigned(row, user_attrs)}
           /\ user' = UserObject(row)
           /\ log' = Append(log, Event("UPDATE", DOMAIN user_attrs))
    /\ pc' = "line_61"
    /\ UNCHANGED <<settings, groups, membership, sessions, username,
                   cognito_user, error, provider, user_attrs, extra_attrs,
                   is_staff, outcome, pre>>

(* Lines 53-60: the updates-only policy. *)
get_and_save ==
    /\ pc = "line_40"
    /\ ~settings.COGNITO_CREATE_UNKNOWN_USERS
    /\ LET found == GetByUsername(username)
       IN  IF found # {}
             THEN LET row == CHOOSE r \in found : TRUE
                  IN  /\ users' = (users \ {row}) \cup {Assigned(row, user_attrs)}
                      /\ user' = UserObject(row)
                      /\ log' = Append(log, Event("UPDATE", DOMAIN user_attrs))
             ELSE /\ user' = None
                  /\ UNCHANGED <<users, log>>
    /\ pc' = "line_61"
    /\ UNCHANGED <<settings, groups, membership, sessions, username,
                   cognito_user, error, provider, user_attrs, extra_attrs, is_staff,
                   outcome, pre>>

(* Lines 61-64: the extras become ad hoc attributes of the user object. *)
set_extras ==
    /\ pc = "line_61"
    /\ IF user # None
         THEN /\ user' = [user EXCEPT !.attrs = Update(@, extra_attrs)]
              /\ log' = Append(log, Event("setattr", DOMAIN extra_attrs))
         ELSE UNCHANGED <<user, log>>
    /\ pc' = "line_95"
    /\ UNCHANGED <<settings, stores, sessions, username, cognito_user, error, provider,
                   user_attrs, extra_attrs, is_staff, outcome, pre>>

(* Lines 95-100: the tokens of this check are attached to the user object. *)
attach_tokens ==
    /\ pc = "line_95"
    /\ IF user # None
         THEN user' = [user EXCEPT !.attrs = Update(@, cognito_user)]
         ELSE UNCHANGED user
    /\ pc' = "line_120"
    /\ UNCHANGED <<settings, stores, sessions, username, cognito_user, error, provider,
                   user_attrs, extra_attrs, is_staff, outcome, pre, log>>

(* Session writes with the access token pasted under the refresh key. *)
store_tokens_Pasted ==
    /\ pc = "line_120"
    /\ user # None
    /\ session' = Put(Put(Put(session,
                     "ACCESS_TOKEN", user.attrs.access_token),
                     "ID_TOKEN", user.attrs.id_token),
                     "REFRESH_TOKEN", user.attrs.access_token)
    /\ log' = log \o <<Event("session.__setitem__", {"ACCESS_TOKEN"}),
                       Event("session.__setitem__", {"ID_TOKEN"}),
                       Event("session.__setitem__", {"REFRESH_TOKEN"})>>
    /\ pc' = "line_124"
    /\ UNCHANGED <<settings, stores, saved, username, locals, outcome, pre>>

(* Lines 120-123: the three tokens go into the session. *)
store_tokens ==
    /\ pc = "line_120"
    /\ user # None
    /\ session' = Put(Put(Put(session,
                     "ACCESS_TOKEN", user.attrs.access_token),
                     "ID_TOKEN", user.attrs.id_token),
                     "REFRESH_TOKEN", user.attrs.refresh_token)
    /\ log' = log \o <<Event("session.__setitem__", {"ACCESS_TOKEN"}),
                       Event("session.__setitem__", {"ID_TOKEN"}),
                       Event("session.__setitem__", {"REFRESH_TOKEN"})>>
    /\ pc' = "line_124"
    /\ UNCHANGED <<settings, stores, saved, username, locals, outcome, pre>>

(* Lines 124-125: the session is saved and the user returned. *)
session_save ==
    /\ pc = "line_124"
    /\ saved' = session
    /\ log' = Append(log, Event("session.save", DOMAIN session))
    /\ outcome' = Returned(user)
    /\ pc' = "done"
    /\ UNCHANGED <<settings, stores, session, username, locals, pre>>

(* A failure path that empties the session of the tokens of an earlier login. *)
return_none_Flushing ==
    /\ pc = "line_120"
    /\ user = None
    /\ session' = EmptyDict
    /\ saved' = EmptyDict
    /\ outcome' = Returned(None)
    /\ pc' = "done"
    /\ UNCHANGED <<settings, stores, username, locals, pre, log>>

(* Lines 120 and 125 when there is no user. *)
return_none ==
    /\ pc = "line_120"
    /\ user = None
    /\ outcome' = Returned(None)
    /\ pc' = "done"
    /\ UNCHANGED <<settings, stores, sessions, username, locals, pre, log>>

(* The caller has the result; the frame of the call is gone. *)
Return ==
    /\ pc = "done"
    /\ pc' = "idle"
    /\ username' = None
    /\ cognito_user' = None
    /\ error' = None
    /\ attribute_list' = EmptyDict
    /\ remote_groups' = {}
    /\ mapped_attrs' = EmptyDict
    /\ user_attrs' = EmptyDict
    /\ extra_attrs' = EmptyDict
    /\ is_staff' = FALSE
    /\ user' = None
    /\ outcome' = Pending
    /\ pre' = Snapshot
    /\ log' = <<>>
    /\ UNCHANGED <<settings, stores, sessions>>

Next ==
    \/ \E create \in BOOLEAN, staff \in BOOLEAN : Configure(create, staff)
    \/ \E name \in Usernames : Request(name)
    \/ CognitoAuthenticate
    \/ handle_error_response
    \/ get_user_obj
    \/ update_or_create
    \/ sync_groups
    \/ get_and_save
    \/ set_extras
    \/ attach_tokens
    \/ store_tokens
    \/ session_save
    \/ return_none
    \/ Return

Spec == Init /\ [][Next]_vars

----------------------------------------------------------------------------
(* The properties. *)

TokenKeys == {"ACCESS_TOKEN", "ID_TOKEN", "REFRESH_TOKEN"}

\* The columns of the user table.
SchemaColumns == {"id", "username", "is_staff", "first_name", "org_id", "groups_id"}

Writes == {i \in 1..Len(log) : log[i].op \in {"UPDATE", "INSERT"}}

SessionEvents ==
    {i \in 1..Len(log) : log[i].op \in {"session.__setitem__", "session.save"}}

\* The call has ended by returning a user object.
ReturnedUser == pc = "done" /\ outcome.kind = "return" /\ outcome.value # None

\* The remote credential check of the call has raised.
RemoteCheckRaised == pc \notin {"idle", "authenticate"} /\ cognito_user = None

\* get_user_obj was handed a mapped attribute set and has returned or raised.
ProvisionerDone ==
    /\ cognito_user # None
    /\ pc \in {"line_95", "line_120", "line_124", "done"}
    /\ outcome # Raised(ValueError)

HadRecord == \E r \in pre.users : r.username = username

IssuedSession(n) ==
    [ACCESS_TOKEN |-> Token("access", n), ID_TOKEN |-> Token("id", n),
     REFRESH_TOKEN |-> Token("refresh", n)]

\* C1: a remote error that carries an error code ends the call with no user
\* and no exception when the code is NotAuthorizedException or
\* UserNotFoundException, and is raised to the caller for every other code.
C1_ErrorCodeDecides ==
    (pc = "done" /\ error # None /\ "response" \in DOMAIN error) =>
        IF error.response.Error.Code \in {"NotAuthorizedException", "UserNotFoundException"}
          THEN outcome = Returned(None)
          ELSE outcome = Raised(error)

C1_Witness ==
    /\ pc = "done"
    /\ error = ClientError("UserNotFoundException")
    /\ outcome = Returned(None)

\* C2: when the call returns a user, the session holds exactly the three
\* tokens this call's remote check issued, under ACCESS_TOKEN, ID_TOKEN and
\* REFRESH_TOKEN, and the session was saved once, after the three writes.
C2_SessionHoldsIssuedTokens ==
    ReturnedUser =>
        /\ \E n \in Bundles : cognito_user = Authenticated(n) /\ session = IssuedSession(n)
        /\ saved = session
        /\ Len(log) >= 4
        /\ log[Len(log)].op = "session.save"
        /\ \A i \in 1..(Len(log) - 1) : log[i].op # "session.save"
        /\ \A k \in TokenKeys :
             \E i \in 1..(Len(log) - 1) : log[i] = Event("session.__setitem__", {k})

C2_Witness ==
    /\ ReturnedUser
    /\ pre.session # EmptyDict
    /\ pre.session # session

\* C3: when the call ends without returning a user (an error converted to
\* no user, an error raised, or a provisioner that found no record), the
\* session and its saved copy are as before the call and no session
\* operation was performed.
C3_FailureLeavesSession ==
    (pc = "done" /\ ~ReturnedUser) =>
        /\ session = pre.session
        /\ saved = pre.saved
        /\ SessionEvents = {}

C3_Witness ==
    /\ pc = "done"
    /\ outcome = Returned(None)
    /\ error = ClientError("NotAuthorizedException")
    /\ pre.session # EmptyDict
    /\ session = pre.session

\* C4: under the create-unknown-users policy, a provisioning that reaches
\* update_or_create updates the record of the username when one exists and
\* never attempts an INSERT for it, there is at most one record per
\* username, and the record's staff flag equals the configured flag.
C4_KeyedByUsernameAlone ==
    (settings.COGNITO_CREATE_UNKNOWN_USERS /\ Writes # {}) =>
        /\ HadRecord => \A i \in Writes : log[i].op = "UPDATE"
        /\ \A u \in Usernames : Cardinality({r \in users : r.username = u}) <= 1
        /\ \A r \in users :
             r.username = username =>
                r.is_staff = settings.COGNITO_ALLOW_BACKEND_ACCESS

C7_PartitionOfAttributes ==
    LET mapped == DOMAIN mapped_attrs
    IN  /\ DOMAIN user_attrs = mapped \cap SchemaColumns
        /\ DOMAIN extra_attrs = mapped \ SchemaColumns
        /\ \A r \in users : DOMAIN r.fields \subseteq SchemaColumns
        /\ \A i \in Writes :
             /\ log[i].keys \subseteq SchemaColumns
             /\ mapped \cap SchemaColumns \subseteq log[i].keys
        /\ \A i \in 1..Len(log) :
             log[i].op = "setattr" =>
                /\ log[i].keys = mapped \ SchemaColumns
                /\ \E j \in Writes : j < i
                /\ \A j \in Writes : j < i
        /\ (user # None /\ pc \in {"line_95", "line_120", "line_124", "done"}) =>
             \A k \in mapped \ SchemaColumns :
                /\ k \in DOMAIN user.attrs
                /\ user.attrs[k] = mapped_attrs[k]

C7_Witness ==
    /\ ReturnedUser
    /\ ~settings.COGNITO_CREATE_UNKNOWN_USERS
    /\ DOMAIN mapped_attrs = {"first_name", "org_id", "dept_id"}
    /\ outcome.value.attrs.dept_id = "42"

\* C8: under the create-unknown-users policy, every provisioning of a mapped
\* attribute set leaves the user with the groups held before plus exactly
\* the local groups the provider's list names; no membership is lost and no
\* group is created.
C8_EachCallAddsNamedGroups ==
    (pc = "done" /\ cognito_user # None /\ settings.COGNITO_CREATE_UNKNOWN_USERS
       /\ outcome # Raised(ValueError)) =>
        /\ groups = pre.groups
        /\ pre.membership \subseteq membership
        /\ \A r \in users :
             r.username = username =>
                {g \in groups : <<r.id, g>> \in membership} =
                    {g \in groups : <<r.id, g>> \in pre.membership}
                        \cup {g \in groups : g \in remote_groups}

\* What of C8 the synchronisation of lines 46-52 does keep: no step removes a
\* membership or touches the group table, and the step that lists the groups
\* adds exactly the local groups the list names.
GroupsOnlyGrow ==
    [][/\ membership \subseteq membership'
       /\ groups' = groups
       /\ pc = "line_46" =>
            membership' \ membership =
                {<<user.pk, g>> : g \in groups \cap remote_groups} \ membership]_vars

\* C9: an error of a caught family that is not one of the two expected
\* authentication failures, with or without a response structure, reaches
\* the caller as the very error the remote client raised.
C9_OtherErrorsPropagateUnchanged ==
    (pc = "done" /\ error # None
       /\ ~("response" \in DOMAIN error
              /\ error.response.Error.Code \in
                   {"NotAuthorizedException", "UserNotFoundException"})) =>
        outcome = Raised(error)

\* C10: once the remote check has raised, the call writes no user row, lists
\* no groups, adds no membership and returns no user; and a returned user
\* object carries the three tokens the remote check of this call issued.
C10_ProvisionerOnlyAfterSuccess ==
    /\ RemoteCheckRaised =>
         /\ users = pre.users
         /\ membership = pre.membership
         /\ log = <<>>
         /\ user = None
         /\ ~ReturnedUser
    /\ ReturnedUser =>
         \E n \in Bundles :
            /\ cognito_user = Authenticated(n)
            /\ outcome.value.attrs.access_token = Token("access", n)
            /\ outcome.value.attrs.id_token = Token("id", n)
            /\ outcome.value.attrs.refresh_token = Token("refresh", n)

C10_Witness ==
    /\ pc = "done"
    /\ error = ClientError("LimitExceededException")
    /\ outcome = Raised(error)
    /\ users # {}

====
